---- MODULE Spec2Model ----
(***************************************************************************)
(* Model of the signal conditioning and feature extraction pipeline:       *)
(*   modules/signal_preprocessor.py  SignalPreprocessor, segment_into_windows *)
(*   modules/feature_extractor.py    FeatureExtractor                       *)
(*   scripts/feature_engineering.py  main                                   *)
(*                                                                         *)
(* A sample is a finite rational <<num, den>> (den > 0, lowest terms) or   *)
(* the missing value NaN, written <<0, 0>>.  This value set is closed      *)
(* under every operation of the preprocessor; float rounding is not        *)
(* modelled.  A Series is a record of an index (positions, as pandas keeps *)
(* them through slicing and rolling) and the values at those positions.    *)
(*                                                                         *)
(* Three specifications share the variables:                               *)
(*   Spec      calls of the preprocessor's operations on one instance      *)
(*   SpecMain  main() of feature_engineering.py as written                 *)
(*   SpecLoop  the per-window feature loop of main() over a list of        *)
(*             preprocessed windows                                        *)
(***************************************************************************)
EXTENDS Integers, Sequences, FiniteSets

\* ------------------------------------------------------------- bounds
MaxLen == 5
MaxWidth == 5
MaxWin == 3
MaxWindows == 3
MaxTrendLen == 21

\* ------------------------------------------------------------- samples
NaN == <<0, 0>>

IsNaN(x) == x[2] = 0

Abs(n) == IF n < 0 THEN 0 - n ELSE n

RECURSIVE GCD(_, _)
GCD(a, b) == IF b = 0 THEN a ELSE GCD(b, a % b)

\* The rational n/d in lowest terms with a positive denominator.
Rat(n, d) ==
    IF d = 0 THEN NaN
    ELSE LET g == GCD(Abs(n), Abs(d))
             s == IF d < 0 THEN 0 - 1 ELSE 1
         IN  <<(s * n) \div g, (s * d) \div g>>

Int2Rat(n) == <<n, 1>>

\* Float arithmetic: a missing operand gives a missing result.
RAdd(a, b) == IF IsNaN(a) \/ IsNaN(b) THEN NaN
              ELSE Rat(a[1] * b[2] + b[1] * a[2], a[2] * b[2])

RSub(a, b) == IF IsNaN(a) \/ IsNaN(b) THEN NaN
              ELSE Rat(a[1] * b[2] - b[1] * a[2], a[2] * b[2])

RMul(a, b) == IF IsNaN(a) \/ IsNaN(b) THEN NaN
              ELSE Rat(a[1] * b[1], a[2] * b[2])

RDiv(a, b) == IF IsNaN(a) \/ IsNaN(b) THEN NaN
              ELSE Rat(a[1] * b[2], a[2] * b[1])

\* Float comparison: false whenever an operand is missing.
RLess(a, b) == ~IsNaN(a) /\ ~IsNaN(b) /\ a[1] * b[2] < b[1] * a[2]

RLeq(a, b) == ~IsNaN(a) /\ ~IsNaN(b) /\ a[1] * b[2] <= b[1] * a[2]

REq(a, b) == ~IsNaN(a) /\ ~IsNaN(b) /\ a = b

Zero == Int2Rat(0)

One == Int2Rat(1)

\* The values a raw or intermediate sample is drawn from.
Vals == {NaN, Int2Rat(0 - 1), Int2Rat(0), Int2Rat(2)}

\* ------------------------------------------------------------- series
RangeIndex(n) == [i \in 1..n |-> i - 1]

MkSeries(idx, vals) == [index |-> idx, values |-> vals]

\* pd.Series(values): a fresh series carries the positions 0..n-1.
NewSeries(vals) == MkSeries(RangeIndex(Len(vals)), vals)

EmptySeries == NewSeries(<<>>)

SeriesSet == {NewSeries(v) : v \in UNION {[1..n -> Vals] : n \in 0..MaxLen}}

\* The series handed to segment_into_windows: splitting is positional, so two
\* sample values are enough to tell the windows' contents apart.
RawSeriesSet ==
    {NewSeries(v) : v \in UNION {[1..n -> {Int2Rat(0), Int2Rat(2)}] : n \in 0..MaxLen}}

\* The series handed to estimate_trend: the short ones, and one longer series
\* per length, long enough for the default window to be 1 and 2.
TrendSeriesSet ==
    RawSeriesSet
    \cup {NewSeries([i \in 1..n |-> Int2Rat(i % 3)]) : n \in (MaxLen + 1)..MaxTrendLen}

SLen(s) == Len(s.values)

Min2(a, b) == IF a < b THEN a ELSE b

Max2(a, b) == IF a > b THEN a ELSE b

\* data[lo:hi], a positional slice with Python's clamping (0 <= lo).
Slice(s, lo, hi) ==
    LET n == SLen(s)
        a == Min2(lo, n)
        b == Max2(a, Min2(hi, n))
    IN  MkSeries(SubSeq(s.index, a + 1, b), SubSeq(s.values, a + 1, b))

\* range(start, stop, step) for step # 0, as the list of its members.
RECURSIVE PyRange(_, _, _)
PyRange(start, stop, step) ==
    IF (step > 0 /\ start < stop) \/ (step < 0 /\ start > stop)
    THEN <<start>> \o PyRange(start + step, stop, step)
    ELSE <<>>

RECURSIVE RSum(_)
RSum(vals) == IF vals = <<>> THEN Zero ELSE RAdd(Head(vals), RSum(Tail(vals)))

\* The non-missing members of a sequence of samples, in order.
RECURSIVE DropNaN(_)
DropNaN(vals) ==
    IF vals = <<>> THEN <<>>
    ELSE IF IsNaN(Head(vals)) THEN DropNaN(Tail(vals))
    ELSE <<Head(vals)>> \o DropNaN(Tail(vals))

\* np.nanmin / np.nanmax: missing values are skipped; NaN when none is left.
RECURSIVE NanMinSeq(_)
NanMinSeq(vals) ==
    IF vals = <<>> THEN NaN
    ELSE LET r == NanMinSeq(Tail(vals))
         IN  IF IsNaN(r) \/ RLess(Head(vals), r) THEN Head(vals) ELSE r

RECURSIVE NanMaxSeq(_)
NanMaxSeq(vals) ==
    IF vals = <<>> THEN NaN
    ELSE LET r == NanMaxSeq(Tail(vals))
         IN  IF IsNaN(r) \/ RLess(r, Head(vals)) THEN Head(vals) ELSE r

NanMin(vals) == NanMinSeq(DropNaN(vals))

NanMax(vals) == NanMaxSeq(DropNaN(vals))

\* ------------------------------------------------- SignalPreprocessor
VARIABLES
    pc,           \* "idle": no call in progress; "returned": a call has returned
    window_size,  \* self.window_size
    scaler,       \* self.scaler: the MinMaxScaler's fitted attributes
    op,           \* the operation last called
    arg,          \* its Series argument
    param,        \* its integer argument (window_size_points)
    argcols,      \* the columns of its table argument
    outcome,      \* "ok" or the exception it raised
    flags,        \* warnings and flags it made observable to the caller
    ret,          \* the Series it returned
    retcols,      \* the columns of the table it returned
    wins,         \* the list of windows it returned
    prior,        \* self.scaler as the call found it
    defaulted,    \* whether the call left its optional argument out
    rpc,          \* main(): position in the script
    raw_cols,     \* main(): the columns of raw_data
    raw_rows,     \* main(): the number of rows of raw_data
    steps,        \* main(): the processing steps that have run
    printed,      \* main(): the messages printed
    error,        \* main(): the exception that ended the run, or "none"
    written,      \* main(): whether features_for_model.csv was written
    preprocessed_windows, \* the feature loop: the windows iterated over
    wi,           \* the feature loop: the position of the next window
    all_features, \* the feature loop: the rows collected
    extracted     \* the feature loop: the last extract_all_features call

callVars == <<pc, window_size, scaler, op, arg, param, argcols, outcome, flags, ret,
              retcols, wins, prior, defaulted>>

runVars == <<rpc, raw_cols, raw_rows, steps, printed, error, written>>

loopVars == <<preprocessed_windows, wi, all_features, extracted>>

vars == <<callVars, runVars, loopVars>>

\* MinMaxScaler(feature_range=(0, 1)) before any fit.
Unfitted == [fitted |-> FALSE, min_ |-> NaN, scale_ |-> NaN,
             data_min_ |-> NaN, data_max_ |-> NaN]

\* The attributes class SignalPreprocessor defines.  preprocess is not one of
\* them: its def is indented into the body of the module-level function
\* segment_into_windows, after that function's return.
ClassMethods == {"__init__", "reduce_noise", "normalize_signal", "detrend_signal",
                 "estimate_trend", "remove_measurement_duplicates"}

\* data.rolling(window=w, center=..., min_periods=mp).mean() at position i
\* (1-based): the mean of the non-missing samples of the window, or NaN when
\* there are fewer than mp of them.
RollingMeanAt(vals, i, w, mp, center) ==
    LET offset == IF center THEN (w - 1) \div 2 ELSE 0
        hi  == Min2(i + offset, Len(vals))
        lo  == Max2(i + offset - w + 1, 1)
        obs == DropNaN(SubSeq(vals, lo, hi))
    IN  IF Len(obs) >= mp /\ Len(obs) > 0
        THEN RDiv(RSum(obs), Int2Rat(Len(obs)))
        ELSE NaN

RollingMean(data, w, mp, center) ==
    MkSeries(data.index,
             [i \in 1..SLen(data) |-> RollingMeanAt(data.values, i, w, mp, center)])

\* Faulty variant of reduce_noise: min_periods=1, as estimate_trend passes it.
reduce_noise_min_periods_1(w, data) == RollingMean(data, w, 1, TRUE)

\* min_periods is left unset: it defaults to the window.
reduce_noise(w, data) == RollingMean(data, w, w, TRUE)

\* sklearn's _handle_zeros_in_scale: a zero range scales by 1.
HandleZerosInScale(r) == IF r = Zero THEN One ELSE r

\* np.minimum / np.maximum: a missing operand gives a missing result.
RMinimum(a, b) == IF IsNaN(a) \/ IsNaN(b) THEN NaN ELSE IF RLess(b, a) THEN b ELSE a

RMaximum(a, b) == IF IsNaN(a) \/ IsNaN(b) THEN NaN ELSE IF RLess(a, b) THEN b ELSE a

\* Faulty variant of ScalerReset: the fitted attributes are kept.
ScalerKeep(sc) == sc

\* MinMaxScaler._reset: the fitted attributes are deleted.
ScalerReset(sc) == Unfitted

\* MinMaxScaler.partial_fit: on a scaler already fitted the data's min and
\* max are merged with the ones seen before.
ScalerPartialFit(sc, vals) ==
    LET data_min   == IF sc.fitted THEN RMinimum(sc.data_min_, NanMin(vals))
                      ELSE NanMin(vals)
        data_max   == IF sc.fitted THEN RMaximum(sc.data_max_, NanMax(vals))
                      ELSE NanMax(vals)
        data_range == RSub(data_max, data_min)
        scale      == RDiv(One, HandleZerosInScale(data_range))
    IN  [fitted |-> TRUE, min_ |-> RSub(Zero, RMul(data_min, scale)), scale_ |-> scale,
         data_min_ |-> data_min, data_max_ |-> data_max]

\* MinMaxScaler.fit: reset, then partial_fit, so every call starts from the
\* data alone.
ScalerFit(sc, vals) == ScalerPartialFit(ScalerReset(sc), vals)

\* Faulty variant of ScalerTransform: the shift by min_ is left out.
ScalerTransformNoShift(sc, vals) ==
    [i \in 1..Len(vals) |-> RMul(vals[i], sc.scale_)]

\* MinMaxScaler.transform: X * scale_ + min_.
ScalerTransform(sc, vals) ==
    [i \in 1..Len(vals) |-> RAdd(RMul(vals[i], sc.scale_), sc.min_)]

\* normalize_signal: its outcome, the Series returned, the scaler afterwards,
\* and what it makes observable besides the return value.  An empty array is
\* rejected by the scaler's input check, after fit has reset the scaler; an
\* all-missing one draws numpy's "All-NaN slice" RuntimeWarning.
normalize_signal(sc, data) ==
    IF SLen(data) = 0
    THEN [outcome |-> "ValueError", ret |-> EmptySeries, scaler |-> ScalerReset(sc),
          flags |-> {}]
    ELSE LET fit == ScalerFit(sc, data.values)
         IN  [outcome |-> "ok",
              ret     |-> MkSeries(data.index, ScalerTransform(fit, data.values)),
              scaler  |-> fit,
              flags   |-> IF DropNaN(data.values) = <<>> THEN {"RuntimeWarning"} ELSE {}]

\* data.diff(): the first position has no predecessor.
Diff(vals) ==
    [i \in 1..Len(vals) |-> IF i = 1 THEN NaN ELSE RSub(vals[i], vals[i - 1])]

\* bfill(): a missing position takes the next non-missing value, if any.
RECURSIVE BFill(_)
BFill(vals) ==
    IF vals = <<>> THEN <<>>
    ELSE LET rest == BFill(Tail(vals))
         IN  IF IsNaN(Head(vals)) /\ rest # <<>>
             THEN <<Head(rest)>> \o rest
             ELSE <<Head(vals)>> \o rest

\* Faulty variant of detrend_signal: the first position is filled with zero.
detrend_signal_fill_zero(data) ==
    MkSeries(data.index,
             [i \in 1..SLen(data) |->
                IF IsNaN(Diff(data.values)[i]) THEN Zero ELSE Diff(data.values)[i]])

detrend_signal(data) == MkSeries(data.index, BFill(Diff(data.values)))

\* Faulty variant of segment_into_windows: only full windows are cut, the short
\* trailing one is dropped.
segment_full_windows_only(data, window_size_points) ==
    IF window_size_points = 0
    THEN [outcome |-> "ValueError", wins |-> <<>>]
    ELSE LET starts == PyRange(0, SLen(data) - window_size_points + 1, window_size_points)
         IN  [outcome |-> "ok",
              wins |-> [k \in 1..Len(starts) |->
                          Slice(data, starts[k], starts[k] + window_size_points)]]

\* estimate_trend: a window size left out defaults to int(len(data) / 10);
\* rolling(window, center=True, min_periods=1) rejects a window below its
\* min_periods of 1 (and a negative one) with a ValueError.
estimate_trend(data, given, window_size_arg) ==
    LET w == IF given THEN window_size_arg ELSE SLen(data) \div 10
    IN  IF w < 1
        THEN [outcome |-> "ValueError", ret |-> EmptySeries]
        ELSE [outcome |-> "ok", ret |-> RollingMean(data, w, 1, TRUE)]

\* segment_into_windows: range() rejects a zero step; a negative step from 0
\* up to len(data) is an empty range.
segment_into_windows(data, window_size_points) ==
    IF window_size_points = 0
    THEN [outcome |-> "ValueError", wins |-> <<>>]
    ELSE LET starts == PyRange(0, SLen(data), window_size_points)
         IN  [outcome |-> "ok",
              wins |-> [k \in 1..Len(starts) |->
                          Slice(data, starts[k], starts[k] + window_size_points)]]

\* ------------------------------------------------- FeatureExtractor
\* For the feature loop a sample is known by its kind only: finite, missing
\* or infinite.  The feature values themselves (statistics, FFT, Welch PSD,
\* ADF) are not modelled; a row is the ordered list of its feature names.
Kinds == {"fin", "nan", "inf"}

StatisticalNames == <<"mean", "std", "max", "min", "median", "skew", "kurtosis",
                      "quantile1", "quantile3", "iqr">>

FftNames == <<"fft_mean", "fft_std">>

PsdNames == <<"psd_mean", "psd_std">>

TimeNames == <<"adf_statistic", "adf_pvalue">>

RECURSIVE DropKind(_, _)
DropKind(kinds, k) ==
    IF kinds = <<>> THEN <<>>
    ELSE IF Head(kinds) = k THEN DropKind(Tail(kinds), k)
    ELSE <<Head(kinds)>> \o DropKind(Tail(kinds), k)

\* extract_time_features: raises when nothing is left after dropping the
\* missing values, or after dropping the infinite ones; adfuller (statsmodels)
\* raises on samples it cannot test (too short, constant): adf_ok is its outcome.
extract_time_features(data, adf_ok) ==
    LET cleaned == DropKind(data, "nan")
    IN  IF cleaned = <<>> THEN [outcome |-> "ValueError", names |-> <<>>]
        ELSE IF DropKind(cleaned, "inf") = <<>>
             THEN [outcome |-> "ValueError", names |-> <<>>]
        ELSE IF ~adf_ok THEN [outcome |-> "ValueError", names |-> <<>>]
        ELSE [outcome |-> "ok", names |-> TimeNames]

\* extract_all_features: the four dictionaries merged in call order; an
\* exception of extract_time_features is not caught and no row is returned.
extract_all_features(data, adf_ok) ==
    LET time == extract_time_features(data, adf_ok)
    IN  IF time.outcome # "ok"
        THEN [called |-> TRUE, outcome |-> time.outcome, names |-> <<>>]
        ELSE [called |-> TRUE, outcome |-> "ok",
              names |-> StatisticalNames \o FftNames \o PsdNames \o time.names]

NotExtracted == [called |-> FALSE, outcome |-> "none", names |-> <<>>]

\* ------------------------------------------------- initial states
CallIdle ==
    /\ pc = "idle"
    /\ op = "none"
    /\ arg = EmptySeries
    /\ param = 0
    /\ argcols = {}
    /\ outcome = "none"
    /\ flags = {}
    /\ ret = EmptySeries
    /\ retcols = {}
    /\ wins = <<>>
    /\ prior = Unfitted
    /\ defaulted = FALSE

RunIdle ==
    /\ raw_cols = {}
    /\ raw_rows = 0
    /\ steps = {}
    /\ printed = {}
    /\ error = "none"
    /\ written = FALSE

LoopIdle ==
    /\ preprocessed_windows = <<>>
    /\ wi = 1
    /\ all_features = <<>>
    /\ extracted = NotExtracted

\* SignalPreprocessor(window_size): __init__ stores the width and creates the
\* scaler.
Init ==
    /\ window_size \in 1..MaxWidth
    /\ scaler = Unfitted
    /\ CallIdle
    /\ rpc = "none"
    /\ RunIdle
    /\ LoopIdle

\* ------------------------------------------------- calls on one instance
CallRecord(o, a, p, cols, out, fl, r, w) ==
    /\ op' = o
    /\ arg' = a
    /\ param' = p
    /\ argcols' = cols
    /\ outcome' = out
    /\ flags' = fl
    /\ ret' = r
    /\ retcols' = {}
    /\ wins' = w

ReturnedFrom(o, a, p, dflt, cols, out, fl, r, w) ==
    /\ pc' = "returned"
    /\ prior' = scaler
    /\ defaulted' = dflt
    /\ CallRecord(o, a, p, cols, out, fl, r, w)

Returned(o, a, p, cols, out, fl, r, w) ==
    ReturnedFrom(o, a, p, FALSE, cols, out, fl, r, w)

ReduceNoiseCall ==
    /\ pc = "idle"
    /\ \E data \in SeriesSet :
          Returned("reduce_noise", data, 0, {}, "ok", {},
                   reduce_noise(window_size, data), <<>>)
    /\ UNCHANGED <<window_size, scaler, rpc, runVars, loopVars>>

\* fit_transform refits self.scaler on every call.
NormalizeCall ==
    /\ pc = "idle"
    /\ \E data \in SeriesSet :
          LET r == normalize_signal(scaler, data)
          IN  /\ Returned("normalize_signal", data, 0, {}, r.outcome, r.flags, r.ret, <<>>)
              /\ scaler' = r.scaler
    /\ UNCHANGED <<window_size, rpc, runVars, loopVars>>

DetrendCall ==
    /\ pc = "idle"
    /\ \E data \in SeriesSet :
          Returned("detrend_signal", data, 0, {}, "ok", {}, detrend_signal(data), <<>>)
    /\ UNCHANGED <<window_size, scaler, rpc, runVars, loopVars>>

\* estimate_trend(data) and estimate_trend(data, window_size).
EstimateTrendCall ==
    /\ pc = "idle"
    /\ \E data \in TrendSeriesSet, given \in BOOLEAN, w \in 0..MaxWidth :
          /\ given \/ w = 0
          /\ LET r == estimate_trend(data, given, w)
             IN  ReturnedFrom("estimate_trend", data, w, ~given, {}, r.outcome, {},
                              r.ret, <<>>)
    /\ UNCHANGED <<window_size, scaler, rpc, runVars, loopVars>>

SegmentCall ==
    /\ pc = "idle"
    /\ \E data \in RawSeriesSet, window_size_points \in (0 - MaxWin)..MaxWin :
          LET r == segment_into_windows(data, window_size_points)
          IN  Returned("segment_into_windows", data, window_size_points, {},
                       r.outcome, {}, EmptySeries, r.wins)
    /\ UNCHANGED <<window_size, scaler, rpc, runVars, loopVars>>

\* The columns a table handed to preprocess may have.
TableColumns == {"data", "measurement", "experiment"}

\* preprocessor.preprocess(table): the attribute lookup on the instance
\* fails, so nothing of the nested def's body runs.
PreprocessCall ==
    /\ pc = "idle"
    /\ "preprocess" \notin ClassMethods
    /\ \E cols \in SUBSET TableColumns :
          Returned("preprocess", EmptySeries, 0, cols, "AttributeError", {},
                   EmptySeries, <<>>)
    /\ UNCHANGED <<window_size, scaler, rpc, runVars, loopVars>>

\* The caller takes the result; the instance keeps its scaler.
Return ==
    /\ pc = "returned"
    /\ pc' = "idle"
    /\ prior' = Unfitted
    /\ defaulted' = FALSE
    /\ CallRecord("none", EmptySeries, 0, {}, "none", {}, EmptySeries, <<>>)
    /\ UNCHANGED <<window_size, scaler, rpc, runVars, loopVars>>

Next ==
    \/ ReduceNoiseCall
    \/ NormalizeCall
    \/ DetrendCall
    \/ EstimateTrendCall
    \/ SegmentCall
    \/ PreprocessCall
    \/ Return

Spec == Init /\ [][Next]_vars

\* ------------------------------------------------- main(), as written
\* The columns raw_data may have (load_experiment_data returns an empty
\* table, without columns, when no file could be loaded).
RawColumns == {"data", "time", "experiment", "measurement"}

\* After data_loader.load_experiment_data('experiment1').
InitMain ==
    /\ window_size = 5
    /\ scaler = Unfitted
    /\ CallIdle
    /\ rpc = "loaded"
    /\ raw_cols \in SUBSET RawColumns
    /\ raw_rows \in 0..MaxLen
    /\ steps = {}
    /\ printed = {}
    /\ error = "none"
    /\ written = FALSE
    /\ LoopIdle

\* Lines 19-25: print the columns; without a 'data' column print a message
\* and return.
MainCheckData ==
    /\ rpc = "loaded"
    /\ IF "data" \notin raw_cols
       THEN /\ printed' = printed \cup {"columns", "data not found"}
            /\ rpc' = "done"
       ELSE /\ printed' = printed \cup {"columns"}
            /\ rpc' = "preprocess"
    /\ UNCHANGED <<callVars, raw_cols, raw_rows, steps, error, written, loopVars>>

\* Lines 28-31: construct the preprocessor and call preprocessor.preprocess,
\* which the instance does not have: the AttributeError ends the run.
MainPreprocess ==
    /\ rpc = "preprocess"
    /\ "preprocess" \notin ClassMethods
    /\ error' = "AttributeError"
    /\ rpc' = "crashed"
    /\ UNCHANGED <<callVars, raw_cols, raw_rows, steps, printed, written, loopVars>>

NextMain == MainCheckData \/ MainPreprocess

SpecMain == InitMain /\ [][NextMain]_vars

\* ------------------------------------------------- the per-window feature loop
\* A preprocessed window: whether it has the 'data_detrended' column, and the
\* kinds of that column's samples.
WindowSet ==
    {[has_detrended |-> FALSE, data_detrended |-> <<>>]}
    \cup {[has_detrended |-> TRUE, data_detrended |-> d] :
             d \in UNION {[1..n -> Kinds] : n \in 1..2}}

\* Lines 33-37, entered with a list of preprocessed windows.
InitLoop ==
    /\ window_size = 5
    /\ scaler = Unfitted
    /\ CallIdle
    /\ rpc = "loop"
    /\ RunIdle
    /\ preprocessed_windows \in UNION {[1..n -> WindowSet] : n \in 0..MaxWindows}
    /\ wi = 1
    /\ all_features = <<>>
    /\ extracted = NotExtracted

\* Lines 38-45, one iteration: a window without the column is skipped; an
\* exception of extract_all_features is not caught and ends the run.
LoopIteration ==
    /\ rpc = "loop"
    /\ wi <= Len(preprocessed_windows)
    /\ LET window_data == preprocessed_windows[wi]
       IN  IF ~window_data.has_detrended
           THEN /\ printed' = printed \cup {"data_detrended not found"}
                /\ wi' = wi + 1
                /\ UNCHANGED <<rpc, error, all_features, extracted>>
           ELSE \E adf_ok \in BOOLEAN :
                   LET features == extract_all_features(window_data.data_detrended, adf_ok)
                   IN  /\ extracted' = features
                       /\ IF features.outcome = "ok"
                          THEN /\ all_features' = Append(all_features, features.names)
                               /\ wi' = wi + 1
                               /\ UNCHANGED <<rpc, error, printed>>
                          ELSE /\ error' = features.outcome
                               /\ rpc' = "crashed"
                               /\ UNCHANGED <<wi, all_features, printed>>
    /\ UNCHANGED <<callVars, raw_cols, raw_rows, steps, written, preprocessed_windows>>

\* Lines 47-53: pd.concat raises on an empty list; otherwise the table is
\* written and the run ends.
LoopFinish ==
    /\ rpc = "loop"
    /\ wi > Len(preprocessed_windows)
    /\ IF all_features = <<>>
       THEN /\ error' = "ValueError"
            /\ rpc' = "crashed"
            /\ UNCHANGED <<written, printed>>
       ELSE /\ written' = TRUE
            /\ printed' = printed \cup {"completed"}
            /\ rpc' = "done"
            /\ UNCHANGED error
    /\ UNCHANGED <<callVars, raw_cols, raw_rows, steps, preprocessed_windows, wi,
                   all_features, extracted>>

NextLoop == LoopIteration \/ LoopFinish

SpecLoop == InitLoop /\ [][NextLoop]_vars

\* ------------------------------------------------- claims
CeilDiv(n, d) == (n + d - 1) \div d

RECURSIVE ConcatValues(_)
ConcatValues(ws) ==
    IF ws = <<>> THEN <<>> ELSE Head(ws).values \o ConcatValues(Tail(ws))

RECURSIVE ConcatIndex(_)
ConcatIndex(ws) ==
    IF ws = <<>> THEN <<>> ELSE Head(ws).index \o ConcatIndex(Tail(ws))

HasNaN(vals) == \E i \in 1..Len(vals) : IsNaN(vals[i])

Defined(vals) == {vals[i] : i \in {j \in 1..Len(vals) : ~IsNaN(vals[j])}}

CountNaN(vals) == Cardinality({i \in 1..Len(vals) : IsNaN(vals[i])})

SegmentReturned == pc = "returned" /\ op = "segment_into_windows"

\* C1: for every series of length n >= 0 and window length L > 0,
\* segment_into_windows returns ceil(n/L) windows, in increasing start
\* position order (window k starts at position (k-1)*L), contiguous and
\* non-overlapping, whose concatenation is the source series; every window has
\* length L except possibly the last, of length n mod L when L does not
\* divide n.
C1_Segmentation ==
    (SegmentReturned /\ param > 0) =>
        LET n == SLen(arg)
            L == param
        IN  /\ outcome = "ok"
            /\ Len(wins) = CeilDiv(n, L)
            /\ ConcatValues(wins) = arg.values
            /\ ConcatIndex(wins) = arg.index
            /\ \A k \in 1..Len(wins) :
                  /\ SLen(wins[k]) = IF k < Len(wins) \/ n % L = 0 THEN L ELSE n % L
                  /\ Len(wins[k].index) = SLen(wins[k])
                  /\ wins[k].index[1] = (k - 1) * L

\* A series of 5 samples cut into windows of 2: three windows, the last short.
C1_Witness ==
    /\ SegmentReturned
    /\ param = 2
    /\ SLen(arg) = 5
    /\ Len(wins) = 3
    /\ SLen(wins[3]) = 1

PreprocessReturned == pc = "returned" /\ op = "preprocess"

\* C2: preprocess, called on a table with a 'measurement' and a 'data' column,
\* returns a table holding the 'trend' column and the noise-reduced,
\* normalized and detrended channels (computed in that order).  Stated here
\* by what the order presupposes: the call returns, with those columns.
C2_PreprocessReturnsChannels ==
    (PreprocessReturned /\ {"measurement", "data"} \subseteq argcols) =>
        /\ outcome = "ok"
        /\ {"data_noised_reduced", "data_normalized", "data_detrended", "trend"}
              \subseteq retcols

\* C3: in the feature loop, a failure while processing one window does not
\* abort the run: after extract_all_features has failed on a window that
\* later windows follow, the run has not crashed (it goes on to them).
C3_FailureDoesNotAbort ==
    (extracted.called /\ extracted.outcome # "ok" /\ wi < Len(preprocessed_windows))
        => rpc # "crashed"

Vocabulary == StatisticalNames \o FftNames \o PsdNames \o TimeNames

\* C4: every row of extract_all_features has the same feature names in the
\* same order, also for a window on which a feature computation fails: the
\* call returns a full row, neither shortened nor missing.
C4_FixedVocabulary ==
    extracted.called => (extracted.outcome = "ok" /\ extracted.names = Vocabulary)

ReduceReturned == pc = "returned" /\ op = "reduce_noise"

HalfWidth == window_size \div 2

OddWidthFits == window_size % 2 = 1 /\ window_size <= SLen(arg)

AtBoundary(i) == i <= HalfWidth \/ i > SLen(arg) - HalfWidth

\* The mean of the w samples centred on position i, in float arithmetic.
CentredMean(i) ==
    RDiv(RSum(SubSeq(arg.values, i - HalfWidth, i + HalfWidth)), Int2Rat(window_size))

\* C5 as stated: with w odd and w <= len, reduce_noise returns a series of the
\* input's length and index in which exactly the floor(w/2) positions at each
\* end are missing (w - 1 in total) and every other position holds the mean
\* of the w samples centred on it.
C5_Original ==
    (ReduceReturned /\ OddWidthFits) =>
        /\ ret.index = arg.index
        /\ SLen(ret) = SLen(arg)
        /\ CountNaN(ret.values) = window_size - 1
        /\ \A i \in 1..SLen(arg) :
              IF AtBoundary(i) THEN IsNaN(ret.values[i])
              ELSE ~IsNaN(ret.values[i]) /\ ret.values[i] = CentredMean(i)

\* C5 as amended: with w odd and w <= len, reduce_noise returns a series of
\* the input's length and index in which the floor(w/2) positions at each end
\* are missing and every other position holds the mean of the w samples
\* centred on it, which is missing exactly when one of those samples is; on an
\* input without missing samples exactly w - 1 positions are missing.
C5_ReduceNoise ==
    (ReduceReturned /\ OddWidthFits) =>
        /\ outcome = "ok"
        /\ ret.index = arg.index
        /\ SLen(ret) = SLen(arg)
        /\ ~HasNaN(arg.values) => CountNaN(ret.values) = window_size - 1
        /\ \A i \in 1..SLen(arg) :
              IF AtBoundary(i) THEN IsNaN(ret.values[i])
              ELSE /\ ret.values[i] = CentredMean(i)
                   /\ IsNaN(ret.values[i]) <=>
                         HasNaN(SubSeq(arg.values, i - HalfWidth, i + HalfWidth))

\* Width 3 on <<2, 0, -1, 2, 2>>: missing at both ends, 1/3, 1/3 and 1 between.
C5_Witness ==
    /\ ReduceReturned
    /\ window_size = 3
    /\ arg.values = <<Int2Rat(2), Int2Rat(0), Int2Rat(0 - 1), Int2Rat(2), Int2Rat(2)>>
    /\ ret.values = <<NaN, Rat(1, 3), Rat(1, 3), Int2Rat(1), NaN>>

NormalizeReturned == pc = "returned" /\ op = "normalize_signal"

\* The window's own minimum and maximum over its non-missing values.
WindowMin == CHOOSE m \in Defined(arg.values) : \A v \in Defined(arg.values) : RLeq(m, v)

WindowMax == CHOOSE m \in Defined(arg.values) : \A v \in Defined(arg.values) : RLeq(v, m)

\* C6: on a window whose non-missing values are not all equal,
\* normalize_signal returns a series of the same length in which every
\* non-missing value is (x - min)/(max - min) for the window's own min and max
\* and lies in [0, 1] (min maps to 0, max to 1), and every missing position
\* stays missing and is excluded from the min/max.
C6_Normalize ==
    (NormalizeReturned /\ Cardinality(Defined(arg.values)) > 1) =>
        /\ outcome = "ok"
        /\ ret.index = arg.index
        /\ SLen(ret) = SLen(arg)
        /\ \A i \in 1..SLen(arg) :
              IF IsNaN(arg.values[i]) THEN IsNaN(ret.values[i])
              ELSE /\ ret.values[i] = RDiv(RSub(arg.values[i], WindowMin),
                                           RSub(WindowMax, WindowMin))
                   /\ RLeq(Zero, ret.values[i])
                   /\ RLeq(ret.values[i], One)
                   /\ arg.values[i] = WindowMin => ret.values[i] = Zero
                   /\ arg.values[i] = WindowMax => ret.values[i] = One

\* <<NaN, -1, 0, 2>> normalizes to <<NaN, 0, 1/3, 1>>.
C6_Witness ==
    /\ NormalizeReturned
    /\ arg.values = <<NaN, Int2Rat(0 - 1), Int2Rat(0), Int2Rat(2)>>
    /\ ret.values = <<NaN, Zero, Rat(1, 3), One>>

\* C7: on a constant-valued window (max == min) normalize_signal returns an
\* all-zero series of the same length and makes the condition observable: a
\* DegenerateWindow flag is raised.
C7_DegenerateFlagged ==
    (NormalizeReturned /\ SLen(arg) > 0 /\ ~HasNaN(arg.values)
       /\ Cardinality(Defined(arg.values)) = 1) =>
        /\ outcome = "ok"
        /\ SLen(ret) = SLen(arg)
        /\ \A i \in 1..SLen(ret) : ret.values[i] = Zero
        /\ "DegenerateWindow" \in flags

DetrendReturned == pc = "returned" /\ op = "detrend_signal"

\* The positions i >= 2 whose sample and predecessor are both defined.
ValidDiffs == {i \in 2..SLen(arg) : ~IsNaN(arg.values[i]) /\ ~IsNaN(arg.values[i - 1])}

FirstValidDiff == CHOOSE i \in ValidDiffs : \A j \in ValidDiffs : i <= j

\* C8 as stated: on any series of length n >= 2, detrend_signal returns a
\* series of length n whose value at each position i >= 1 with both
\* neighbours defined is x[i] - x[i-1], and whose first value equals its
\* second value.
C8_Original ==
    (DetrendReturned /\ SLen(arg) >= 2) =>
        /\ SLen(ret) = SLen(arg)
        /\ \A i \in ValidDiffs : ret.values[i] = RSub(arg.values[i], arg.values[i - 1])
        /\ REq(ret.values[1], ret.values[2])

\* C8 as amended: on any series of length n >= 2, detrend_signal returns a
\* series of length n whose value at each position with both neighbours
\* defined is x[i] - x[i-1]; when the series has two consecutive defined
\* samples the first value equals the second, both back-filled from the
\* first valid difference or the second being it (also when the input starts
\* with missing values); otherwise every position of the result is missing.
C8_Detrend ==
    (DetrendReturned /\ SLen(arg) >= 2) =>
        /\ outcome = "ok"
        /\ ret.index = arg.index
        /\ SLen(ret) = SLen(arg)
        /\ \A i \in ValidDiffs : ret.values[i] = RSub(arg.values[i], arg.values[i - 1])
        /\ IF ValidDiffs # {}
           THEN /\ REq(ret.values[1], ret.values[2])
                /\ \A i \in 1..FirstValidDiff :
                      ret.values[i] = RSub(arg.values[FirstValidDiff],
                                           arg.values[FirstValidDiff - 1])
           ELSE \A i \in 1..SLen(ret) : IsNaN(ret.values[i])

\* <<NaN, NaN, 0, 2, -1>> detrends to <<2, 2, 2, 2, -3>>.
C8_Witness ==
    /\ DetrendReturned
    /\ arg.values = <<NaN, NaN, Int2Rat(0), Int2Rat(2), Int2Rat(0 - 1)>>
    /\ ret.values = <<Int2Rat(2), Int2Rat(2), Int2Rat(2), Int2Rat(2), Int2Rat(0 - 3)>>

\* C9: segment_into_windows fails with an InvalidParameter error (Python's
\* ValueError) for every window length <= 0 and never returns a list of
\* windows then.
C9_NonPositiveRejected ==
    (SegmentReturned /\ param <= 0) => outcome = "ValueError"

\* C10: when the input table has no 'data' column the run fails with a
\* MissingColumn error before any processing step has run and before any
\* output is written.
C10_MissingColumnFails ==
    ("data" \notin raw_cols /\ rpc \in {"done", "crashed"}) =>
        /\ error # "none"
        /\ steps = {}
        /\ ~written

\* What an instance straight from __init__ returns for the same window.
FreshResult == normalize_signal(Unfitted, arg)

\* C11: normalization is independent per window: whatever windows the
\* instance normalized before (whatever its scaler held when the call came),
\* normalize_signal gives the outcome and the series a fresh instance gives
\* for the same window, and leaves the scaler as a fresh instance's would be:
\* no min/max of an earlier call leaks.
C11_PerWindowIndependent ==
    NormalizeReturned =>
        /\ outcome = FreshResult.outcome
        /\ ret = FreshResult.ret
        /\ scaler = FreshResult.scaler

\* The scaler was last fitted on a window with minimum -1 and maximum 2;
\* <<0, 2>> still normalizes to <<0, 1>>, not to <<1/3, 1>>.
C11_Witness ==
    /\ NormalizeReturned
    /\ prior.fitted
    /\ prior.data_min_ = Int2Rat(0 - 1)
    /\ prior.data_max_ = Int2Rat(2)
    /\ arg.values = <<Int2Rat(0), Int2Rat(2)>>
    /\ ret.values = <<Zero, One>>

TrendReturned == pc = "returned" /\ op = "estimate_trend"

\* C12: estimate_trend returns a series of the same length as its input for
\* every non-empty input series, both when a (positive) window size is given
\* and when it is left out and defaults to int(len(series)/10).
C12_TrendKeepsLength ==
    (TrendReturned /\ SLen(arg) > 0 /\ (defaulted \/ param >= 1)) =>
        /\ outcome = "ok"
        /\ SLen(ret) = SLen(arg)

====
